---- MODULE Spec2Model ----
(***************************************************************************)
(* Appointment booking backend: the appointment controller                 *)
(* (bookAppointment, verifyPayment, cancelAppointment, deleteAppointment), *)
(* the Appointment schema and the sendEmail helper.                        *)
(*                                                                         *)
(* Every request handler is an async function: it runs synchronously up to *)
(* each await, and the awaited store / gateway / mail operation takes      *)
(* effect at some later point.  One action below is one such operation     *)
(* together with the synchronous code that precedes it.                    *)
(***************************************************************************)
EXTENDS Integers, Sequences, FiniteSets, TLC

(* ------------------------------ bounds -------------------------------- *)

\* request handlers that may be in flight at the same time
MaxRequests == 2
\* documents ever inserted into the collection (ObjectIds are never reused)
MaxAppointments == 2
\* orders the gateway issues
MaxOrders == 2
\* values the clock (new Date()) may show, in days
MaxNow == 2
\* documents of the collection that getAppointments lists
MaxRecords == 25
\* page numbers a listing request asks for
MaxPage == 3

Procs == 1..MaxRequests
Ids == 1..MaxAppointments
OrderIds == 1..MaxOrders
Times == 1..MaxNow

(* ------------------------------ values -------------------------------- *)

\* JavaScript's undefined, for a field of a body or document that is not set
Undefined == "undefined"

\* an Invalid Date (new Date() of an unparseable string): its time value is NaN
InvalidDate == 0 - 1

\* date strings a request may carry, in increasing order: DateStrings[i] is day i
DateStrings == <<"2030-01-01", "2030-01-02">>

\* new Date(s): the day of a known date string, an Invalid Date otherwise
NewDate(s) ==
    IF \E i \in 1..Len(DateStrings) : DateStrings[i] = s
    THEN CHOOSE i \in 1..Len(DateStrings) : DateStrings[i] = s
    ELSE InvalidDate

\* a < b on Dates: every comparison with NaN is false
DateLess(a, b) == a # InvalidDate /\ b # InvalidDate /\ a < b

\* a value of the price table lookup that is truthy but no number
\* (testPrices["constructor"] is Object.prototype.constructor)
NotANumber == 0 - 2

testPrices ==
    [xray |-> 1000, ctscan |-> 5000, mri |-> 8000, ultrasound |-> 2000,
     mammogram |-> 3000, dexa |-> 2500, pet |-> 15000, angiography |-> 12000,
     fluoroscopy |-> 4000, nuclear |-> 10000]

\* testPrices[t]: 0 stands for undefined (falsy), NotANumber for an inherited
\* property of the object literal
PriceLookup(t) ==
    IF t \in DOMAIN testPrices THEN testPrices[t]
    ELSE IF t = "constructor" THEN NotANumber
    ELSE 0

\* the enum of the schema's testType path
TestTypeEnum ==
    {"xray", "ctscan", "mri", "ultrasound", "mammogram", "dexa", "pet",
     "angiography", "fluoroscopy", "nuclear"}

\* amount * 100
Paise(amount) == IF amount = NotANumber THEN NotANumber ELSE amount * 100

(* --------------------------- request bodies --------------------------- *)

\* "   ": blanks only, which is truthy and which trim() empties
Names == {"", "   ", " Asha "}
Emails == {"", "asha-at-example", "Asha@Example.com"}
Phones == {"", "12345", "9876543210"}
BodyTestTypes == {"", "xray", "mri", "biopsy", "constructor"}
BodyDates == {"", "not-a-date", "2030-01-01", "2030-01-02"}
BodyNotes == {Undefined, "LONG"}
\* a client-supplied amount field, which the handler never reads (0: absent)
BodyAmounts == {0, 1}

\* a body that passes every check of the handler on day 1
GoodBody ==
    [name |-> " Asha ", email |-> "Asha@Example.com", phone |-> "9876543210",
     testType |-> "xray", appointmentDate |-> "2030-01-02",
     notes |-> Undefined, amount |-> 0]

\* the bodies of the requests: the good ones, for two test types and an
\* inherited property name, with and without a client-supplied amount; those
\* that differ from GoodBody in one of the checked fields or in the notes;
\* some with two faulty fields; and one that fails every check
Bodies ==
    {[GoodBody EXCEPT !.testType = t, !.amount = a] :
        t \in {"xray", "mri", "constructor"}, a \in BodyAmounts}
      \cup {[GoodBody EXCEPT !.name = v] : v \in Names}
      \cup {[GoodBody EXCEPT !.email = v] : v \in Emails}
      \cup {[GoodBody EXCEPT !.phone = v] : v \in Phones}
      \cup {[GoodBody EXCEPT !.testType = v] : v \in BodyTestTypes}
      \cup {[GoodBody EXCEPT !.appointmentDate = v] : v \in BodyDates}
      \cup {[GoodBody EXCEPT !.name = "", !.email = ""],
             [GoodBody EXCEPT !.email = "", !.phone = ""],
             [GoodBody EXCEPT !.phone = "", !.testType = ""],
             [GoodBody EXCEPT !.testType = "", !.appointmentDate = ""],
             [GoodBody EXCEPT !.email = "asha-at-example", !.appointmentDate = ""],
             [GoodBody EXCEPT !.email = "asha-at-example", !.phone = "12345"],
             [GoodBody EXCEPT !.phone = "12345", !.testType = "biopsy"],
             [GoodBody EXCEPT !.testType = "biopsy",
                              !.appointmentDate = "2030-01-01"],
             [GoodBody EXCEPT !.name = "", !.appointmentDate = "2030-01-01"]}
      \cup {[GoodBody EXCEPT !.notes = v] : v \in BodyNotes}
      \cup {[name |-> "", email |-> "asha-at-example", phone |-> "12345",
             testType |-> "biopsy", appointmentDate |-> "2030-01-01",
             notes |-> Undefined, amount |-> 0]}

\* String.prototype.trim on the strings of the model
Trim(s) ==
    CASE s = " Asha " -> "Asha"
      [] s = "   " -> ""
      [] OTHER -> s

\* String.prototype.toLowerCase on the strings of the model
ToLowerCase(s) ==
    CASE s = "Asha@Example.com" -> "asha@example.com"
      [] OTHER -> s

\* the length of a notes string ("LONG" stands for a text of 501 characters)
NotesLength(s) ==
    CASE s = "LONG" -> 501
      [] OTHER -> 0

\* emailRegex.test / phoneRegex.test on the strings of the model
EmailRegexTest(s) == s \in {"Asha@Example.com", "asha@example.com"}
PhoneRegexTest(s) == s \in {"9876543210"}

requiredFields == <<"name", "email", "phone", "testType", "appointmentDate">>

\* !req.body[field]: the empty string is falsy
Falsy(v) == v = "" \/ v = Undefined

\* the checks, were the phone format tested before the email format
BookValidationPhoneFirst(body, now) ==
    IF \E i \in 1..Len(requiredFields) : Falsy(body[requiredFields[i]])
    THEN LET i == CHOOSE j \in 1..Len(requiredFields) :
                     /\ Falsy(body[requiredFields[j]])
                     /\ \A k \in 1..(j - 1) : ~Falsy(body[requiredFields[k]])
         IN  requiredFields[i] \o " is required"
    ELSE IF ~PhoneRegexTest(body.phone)
         THEN "Please enter a valid 10-digit phone number"
    ELSE IF ~EmailRegexTest(body.email) THEN "Please enter a valid email"
    ELSE IF PriceLookup(body.testType) = 0 THEN "Invalid test type"
    ELSE IF DateLess(NewDate(body.appointmentDate), now)
         THEN "Appointment date cannot be in the past"
    ELSE ""

\* the synchronous checks of bookAppointment, in the order of the code:
\* the message of the first failing check, "" when all pass
BookValidation(body, now) ==
    IF \E i \in 1..Len(requiredFields) : Falsy(body[requiredFields[i]])
    THEN LET i == CHOOSE j \in 1..Len(requiredFields) :
                     /\ Falsy(body[requiredFields[j]])
                     /\ \A k \in 1..(j - 1) : ~Falsy(body[requiredFields[k]])
         IN  requiredFields[i] \o " is required"
    ELSE IF ~EmailRegexTest(body.email) THEN "Please enter a valid email"
    ELSE IF ~PhoneRegexTest(body.phone)
         THEN "Please enter a valid 10-digit phone number"
    ELSE IF PriceLookup(body.testType) = 0 THEN "Invalid test type"
    ELSE IF DateLess(NewDate(body.appointmentDate), now)
         THEN "Appointment date cannot be in the past"
    ELSE ""

(* ------------------------------ signatures ---------------------------- *)

\* the payment ids of the requests
PaymentIds == {"pay_A"}

\* HMAC-SHA256(secret, orderId + "|" + paymentId) as a hex digest: distinct
\* messages have distinct digests
GeneratedSignature(orderId, paymentId) == <<"hmac", orderId, paymentId>>

\* the signatures of the requests: the digests of every order id with the
\* request's payment id or another one, and one that is no digest of these
Signatures ==
    {GeneratedSignature(o, p) : o \in OrderIds, p \in PaymentIds \cup {"pay_B"}}
        \cup {<<"forged", 0, "">>}

(* ------------------------------- state -------------------------------- *)

VARIABLES
    store,        \* the Appointment collection: _id -> document
    nextId,       \* the _id the next inserted document gets
    orders,       \* the gateway's orders: order id -> amount in paise
    pc,           \* per handler: the await it is suspended at ("idle": none)
    req,          \* per handler: the request's values its later steps use
    appointment,  \* per handler: the document it loaded (its local variable)
    resp,         \* the response the last step sent (NoResp: none), and what
                  \* became of the sendEmail call before it
    listing       \* a getAppointments request: the collection it runs on, its
                  \* query and its response

vars == <<store, nextId, orders, pc, req, appointment, resp, listing>>

NoReq ==
    [name |-> "", email |-> "", phone |-> "", testType |-> "",
     appointmentDate |-> 0, notes |-> Undefined, amount |-> 0,
     orderId |-> 0, paymentId |-> "", id |-> 0]

NoDoc ==
    [name |-> "", email |-> "", phone |-> "", testType |-> "",
     appointmentDate |-> 0, notes |-> Undefined, status |-> "", amount |-> 0,
     orderId |-> 0, paymentStatus |-> "", paymentId |-> Undefined]

\* no document loaded
NoAppointment == [id |-> 0, doc |-> NoDoc]

\* code 0: no response (the handler goes on)
Response(op, code, message, id, mail) ==
    [op |-> op, code |-> code, message |-> message, id |-> id, mail |-> mail]

NoResp == Response("", 0, "", 0, "none")

\* no listing request
NoListing ==
    [size |-> 0, dates |-> "", query |-> [page |-> "", limit |-> "", status |-> ""],
     result |-> [code |-> 0, appointments |-> << >>, currentPage |-> 0,
                 totalPages |-> 0, totalAppointments |-> 0]]

Init ==
    /\ store = << >>
    /\ nextId = 1
    /\ orders = << >>
    /\ pc = [p \in Procs |-> "idle"]
    /\ req = [p \in Procs |-> NoReq]
    /\ appointment = [p \in Procs |-> NoAppointment]
    /\ resp = NoResp
    /\ listing = NoListing

\* res.status(code).json(...): the handler ends
Respond(p, r) ==
    /\ pc' = [pc EXCEPT ![p] = "idle"]
    /\ resp' = r
    /\ req' = [req EXCEPT ![p] = NoReq]
    /\ appointment' = [appointment EXCEPT ![p] = NoAppointment]

\* the handler suspends at an await
Suspend(p, at, r, a) ==
    /\ pc' = [pc EXCEPT ![p] = at]
    /\ req' = [req EXCEPT ![p] = r]
    /\ appointment' = [appointment EXCEPT ![p] = a]
    /\ resp' = NoResp

(* --------------------------- the store's part -------------------------- *)

\* the conflict lookup, were its status filter {status: "pending"}
ConflictingPendingOnly(s, date, testType) ==
    {i \in DOMAIN s : /\ s[i].appointmentDate = date
                      /\ s[i].testType = testType
                      /\ s[i].status = "pending"}

\* the conflict lookup, were it without a status filter
ConflictingAnyStatus(s, date, testType) ==
    {i \in DOMAIN s : /\ s[i].appointmentDate = date
                      /\ s[i].testType = testType}

\* Appointment.findOne({appointmentDate, testType, status: {$ne: "cancelled"}}):
\* the _ids of the documents that match
ConflictingAppointments(s, date, testType) ==
    {i \in DOMAIN s : /\ s[i].appointmentDate = date
                      /\ s[i].testType = testType
                      /\ s[i].status # "cancelled"}

\* the lookup, were its filter empty (an orderId key that is not the schema's)
FindByNoFilter(s, orderId) == DOMAIN s

\* Appointment.findOne({ orderId })
FindByOrderId(s, orderId) == {i \in DOMAIN s : s[i].orderId = orderId}

Paths ==
    {"name", "email", "phone", "testType", "appointmentDate", "notes",
     "status", "amount", "orderId", "paymentStatus", "paymentId"}

\* the paths of a loaded document that its assignments changed: save() of an
\* existing document writes these and no others
ModifiedPaths(loaded, doc) == {f \in Paths : loaded[f] # doc[f]}

\* the stored document after updateOne({_id}, {$set: the modified paths})
SetPaths(stored, doc, paths) ==
    [f \in Paths |-> IF f \in paths THEN doc[f] ELSE stored[f]]

\* save(), were the whole loaded document written back
SaveWholeDocument(s, loaded, doc) ==
    IF loaded.id \in DOMAIN s THEN [s EXCEPT ![loaded.id] = doc] ELSE s

\* save() of a loaded document: the modified paths are written to the stored
\* document; nothing is sent when no path is modified
SaveLoaded(s, loaded, doc) ==
    IF loaded.id \in DOMAIN s
    THEN [s EXCEPT ![loaded.id] = SetPaths(@, doc, ModifiedPaths(loaded.doc, doc))]
    ELSE s

\* save() finds the document gone (whether it then rejects, and whether it
\* looks at all when no path is modified, differs between mongoose versions)
SaveMisses(s, loaded, doc) == loaded.id \notin DOMAIN s

\* the schema's validators, run by save() on a new document
SchemaValid(doc) ==
    /\ doc.name # "" /\ doc.email # "" /\ doc.phone # ""
    /\ doc.testType \in TestTypeEnum
    /\ doc.appointmentDate # InvalidDate
    /\ doc.status \in {"pending", "confirmed", "cancelled"}
    /\ NotesLength(doc.notes) <= 500
    /\ doc.amount # NotANumber
    /\ doc.orderId # 0
    /\ doc.paymentStatus \in {"pending", "completed"}

\* the 404 response, were a notice mailed for an appointment that is not found
NotFoundNotified(op) == Response(op, 404, "Appointment not found", 0, "sent")

\* res.status(404).json({ message: "Appointment not found" })
NotFoundResponse(op) == Response(op, 404, "Appointment not found", 0, "none")

\* a handler up to the result of its Appointment.findById(req.params.id): the
\* 404 response when nothing is found, NoResp when the handler goes on
FindByIdLookup(op, s, id) ==
    IF id \notin DOMAIN s THEN NotFoundResponse(op) ELSE NoResp

(* ---------------------------- getAppointment --------------------------- *)

\* getAppointment: findById and the response, the document or 404
GetAppointment(p) ==
    /\ pc[p] = "idle"
    /\ \E id \in Ids :
         LET r == FindByIdLookup("get", store, id)
         IN  IF r.code # 0
             THEN Respond(p, r)
             ELSE Respond(p, Response("get", 200, "", id, "none"))
    /\ UNCHANGED <<store, nextId, orders>>

(* --------------------------- bookAppointment --------------------------- *)

\* the amount, were a client-supplied amount preferred to the price table
ClientAmount(body) ==
    IF body.amount # 0 THEN body.amount ELSE PriceLookup(body.testType)

\* const amount = testPrices[req.body.testType]
DerivedAmount(body) == PriceLookup(body.testType)

\* the request's values after validation, as the later steps use them
BookRequest(body) ==
    [NoReq EXCEPT !.name = Trim(body.name),
                  !.email = Trim(ToLowerCase(body.email)),
                  !.phone = Trim(body.phone),
                  !.testType = body.testType,
                  !.appointmentDate = NewDate(body.appointmentDate),
                  !.notes = IF body.notes = Undefined THEN Undefined
                            ELSE Trim(body.notes),
                  !.amount = DerivedAmount(body)]

\* the document, were the receipt reference stored in place of order.id
NewAppointmentWithReceipt(r) ==
    [name |-> r.name, email |-> r.email, phone |-> r.phone,
     testType |-> r.testType, appointmentDate |-> r.appointmentDate,
     notes |-> r.notes, status |-> "pending", amount |-> r.amount,
     orderId |-> r.orderId + 1, paymentStatus |-> "pending",
     paymentId |-> Undefined]

\* new Appointment({...})
NewAppointment(r) ==
    [name |-> r.name, email |-> r.email, phone |-> r.phone,
     testType |-> r.testType, appointmentDate |-> r.appointmentDate,
     notes |-> r.notes, status |-> "pending", amount |-> r.amount,
     orderId |-> r.orderId, paymentStatus |-> "pending",
     paymentId |-> Undefined]

\* the handler up to the result of its conflict lookup: the response it sends,
\* NoResp when it goes on to create the order
BookLookup(s, body, now) ==
    LET error == BookValidation(body, now)
        r == BookRequest(body)
    IN  IF error # "" THEN Response("book", 400, error, 0, "none")
        ELSE IF r.appointmentDate = InvalidDate
        THEN \* the query cannot cast an Invalid Date: findOne rejects
             Response("book", 400, "Cast to date failed", 0, "none")
        ELSE IF ConflictingAppointments(s, r.appointmentDate, r.testType) # {}
        THEN Response("book", 400, "This time slot is already booked", 0, "none")
        ELSE NoResp

\* a booking request arrives: the checks, the conflict lookup, and
\* razorpay.orders.create({amount: amount * 100, ...}), which returns or throws
\* (the gateway's orders are read by no other handler)
BookAppointment(p) ==
    /\ pc[p] = "idle"
    /\ \E body \in Bodies, now \in Times :
         LET r == BookLookup(store, body, now)
             id == Cardinality(DOMAIN orders) + 1
         IN  IF r.code # 0
             THEN Respond(p, r) /\ UNCHANGED orders
             ELSE \/ /\ id <= MaxOrders
                     /\ orders' = orders @@ (id :> Paise(DerivedAmount(body)))
                     /\ Suspend(p, "book_save",
                                [BookRequest(body) EXCEPT !.orderId = id],
                                NoAppointment)
                  \/ /\ Respond(p, Response("book", 400, "order creation failed",
                                            0, "none"))
                     /\ UNCHANGED orders
    /\ UNCHANGED <<store, nextId>>

\* appointment.save() of the new document: validation, then the insert
BookSave(p) ==
    /\ pc[p] = "book_save"
    /\ LET doc == NewAppointment(req[p])
       IN  IF ~SchemaValid(doc)
           THEN /\ Respond(p, Response("book", 400,
                                       "Appointment validation failed", 0, "none"))
                /\ UNCHANGED <<store, nextId>>
           ELSE \/ /\ nextId <= MaxAppointments
                   /\ store' = store @@ (nextId :> doc)
                   /\ nextId' = nextId + 1
                   /\ Respond(p, Response("book", 201, "", nextId, "none"))
                \/ /\ Respond(p, Response("book", 400, "store failure", 0, "none"))
                   /\ UNCHANGED <<store, nextId>>
    /\ UNCHANGED orders

(* ---------------------------- verifyPayment ---------------------------- *)

\* the check, were the digest taken over the order id alone
OrderSignatureMismatch(orderId, paymentId, signature) ==
    signature[1] # "hmac" \/ signature[2] # orderId

\* generatedSignature !== signature
SignatureMismatch(orderId, paymentId, signature) ==
    GeneratedSignature(orderId, paymentId) # signature

\* the handler, were the appointment looked up before the signature check
VerifyLookupFirst(s, orderId, paymentId, signature) ==
    IF FindByOrderId(s, orderId) = {}
    THEN Response("verify", 404, "Appointment not found", 0, "none")
    ELSE IF SignatureMismatch(orderId, paymentId, signature)
    THEN Response("verify", 400, "Invalid payment signature", 0, "none")
    ELSE NoResp

\* the handler up to the result of its lookup by order id: the response it
\* sends, NoResp when it goes on to update the document
VerifyLookup(s, orderId, paymentId, signature) ==
    IF SignatureMismatch(orderId, paymentId, signature)
    THEN Response("verify", 400, "Invalid payment signature", 0, "none")
    ELSE IF FindByOrderId(s, orderId) = {}
    THEN Response("verify", 404, "Appointment not found", 0, "none")
    ELSE NoResp

\* the assignments, were a repeated confirmation taken for a double payment
\* and the appointment cancelled
ConfirmedOnce(doc, paymentId) ==
    IF doc.status = "confirmed"
    THEN [doc EXCEPT !.status = "cancelled"]
    ELSE [doc EXCEPT !.status = "confirmed", !.paymentStatus = "completed",
                     !.paymentId = paymentId]

\* the assignments, were paymentStatus left out
ConfirmedUnpaid(doc, paymentId) ==
    [doc EXCEPT !.status = "confirmed", !.paymentId = paymentId]

\* the assignments, were the order id cleared once the payment is completed
ConfirmedOrderCleared(doc, paymentId) ==
    [doc EXCEPT !.status = "confirmed", !.paymentStatus = "completed",
                !.paymentId = paymentId, !.orderId = 0]

\* the loaded document after the handler's three assignments
ConfirmedAppointment(doc, paymentId) ==
    [doc EXCEPT !.status = "confirmed", !.paymentStatus = "completed",
                !.paymentId = paymentId]

\* the store, were the catch block to write the loaded document back
StoreRolledBack(s, loaded) ==
    IF loaded.id \in DOMAIN s THEN [s EXCEPT ![loaded.id] = loaded.doc] ELSE s

\* what the catch block leaves of the store when a call after save() threw
StoreAfterCatch(s, loaded) == s

\* a payment verification arrives: the signature check and the lookup
VerifyPayment(p) ==
    /\ pc[p] = "idle"
    /\ \E orderId \in OrderIds, paymentId \in PaymentIds, signature \in Signatures :
         LET r == VerifyLookup(store, orderId, paymentId, signature)
         IN  IF r.code # 0
             THEN Respond(p, r)
             ELSE \E i \in FindByOrderId(store, orderId) :
                    Suspend(p, "verify_save",
                            [NoReq EXCEPT !.orderId = orderId,
                                          !.paymentId = paymentId],
                            [id |-> i, doc |-> store[i]])
    /\ UNCHANGED <<store, nextId, orders>>

\* the three assignments, appointment.save(), await sendEmail(...) and the
\* response; sendEmail rethrows a transport error
VerifySave(p) ==
    /\ pc[p] = "verify_save"
    /\ LET doc == ConfirmedAppointment(appointment[p].doc, req[p].paymentId)
           saved == SaveLoaded(store, appointment[p], doc)
       IN  \/ /\ store' = saved
              /\ Respond(p, Response("verify", 200, "", appointment[p].id, "sent"))
           \/ /\ store' = StoreAfterCatch(saved, appointment[p])
              /\ Respond(p, Response("verify", 500, "Failed to send email",
                                     appointment[p].id, "failed"))
           \/ \* the document is gone: save() may reject (DocumentNotFoundError)
              /\ SaveMisses(store, appointment[p], doc)
              /\ Respond(p, Response("verify", 500, "No document found", 0, "none"))
              /\ UNCHANGED store
           \/ \* the store fails
              /\ Respond(p, Response("verify", 500, "store failure", 0, "none"))
              /\ UNCHANGED store
    /\ UNCHANGED <<nextId, orders>>

(* -------------------------- cancelAppointment -------------------------- *)

\* the loaded document after appointment.status = "cancelled"
CancelledAppointment(doc) == [doc EXCEPT !.status = "cancelled"]

\* a cancellation arrives: Appointment.findById(req.params.id)
CancelAppointment(p) ==
    /\ pc[p] = "idle"
    /\ \E id \in Ids :
         LET r == FindByIdLookup("cancel", store, id)
         IN  IF r.code # 0
             THEN Respond(p, r)
             ELSE Suspend(p, "cancel_save", [NoReq EXCEPT !.id = id],
                          [id |-> id, doc |-> store[id]])
    /\ UNCHANGED <<store, nextId, orders>>

\* the assignment, appointment.save(), await sendEmail(...) and the response
CancelSave(p) ==
    /\ pc[p] = "cancel_save"
    /\ LET doc == CancelledAppointment(appointment[p].doc)
           saved == SaveLoaded(store, appointment[p], doc)
       IN  \/ /\ store' = saved
              /\ Respond(p, Response("cancel", 200, "", appointment[p].id, "sent"))
           \/ /\ store' = StoreAfterCatch(saved, appointment[p])
              /\ Respond(p, Response("cancel", 500, "Failed to send email",
                                     appointment[p].id, "failed"))
           \/ \* the document is gone: save() may reject (DocumentNotFoundError)
              /\ SaveMisses(store, appointment[p], doc)
              /\ Respond(p, Response("cancel", 500, "No document found", 0, "none"))
              /\ UNCHANGED store
           \/ \* the store fails
              /\ Respond(p, Response("cancel", 500, "store failure", 0, "none"))
              /\ UNCHANGED store
    /\ UNCHANGED <<nextId, orders>>

(* -------------------------- deleteAppointment -------------------------- *)

\* the removal, were it a soft delete that keeps confirmed appointments
DeleteUnlessConfirmed(s, id) ==
    [i \in {j \in DOMAIN s : j # id \/ s[j].status = "confirmed"} |-> s[i]]

\* Appointment.findByIdAndDelete(id): the collection without that document
FindByIdAndDelete(s, id) == [i \in DOMAIN s \ {id} |-> s[i]]

\* a deletion arrives: Appointment.findById(req.params.id)
DeleteAppointment(p) ==
    /\ pc[p] = "idle"
    /\ \E id \in Ids :
         LET r == FindByIdLookup("delete", store, id)
         IN  IF r.code # 0
             THEN Respond(p, r)
             ELSE Suspend(p, "delete_remove", [NoReq EXCEPT !.id = id],
                          NoAppointment)
    /\ UNCHANGED <<store, nextId, orders>>

\* Appointment.findByIdAndDelete(req.params.id) and the response
DeleteRemove(p) ==
    /\ pc[p] = "delete_remove"
    /\ store' = FindByIdAndDelete(store, req[p].id)
    /\ Respond(p, Response("delete", 200, "Appointment deleted successfully",
                           req[p].id, "none"))
    /\ UNCHANGED <<nextId, orders>>

(* --------------------------- getAppointments --------------------------- *)

\* the decimal numerals of 1..10, as query strings
Numeral == <<"1", "2", "3", "4", "5", "6", "7", "8", "9", "10">>

\* the NaN that parseInt returns for a string that starts with no digit
NaN == 0 - 3

\* parseInt(s) on the query strings of the model; parseInt(undefined) is NaN
ParseInt(s) ==
    IF s = "0" THEN 0
    ELSE IF \E n \in 1..Len(Numeral) : Numeral[n] = s
    THEN CHOOSE n \in 1..Len(Numeral) : Numeral[n] = s
    ELSE NaN

\* v || d on numbers: 0 and NaN are falsy
OrDefault(v, d) == IF v = 0 \/ v = NaN THEN d ELSE v

\* the query strings of a listing request
QueryPages == {Undefined, "0", "abc"} \cup {Numeral[n] : n \in 1..MaxPage}
QueryLimits == {Undefined, "0", "1", "2", "3", "10"}
QueryStatuses == {Undefined, "pending", "cancelled"}

\* the orders in which the documents of a listed collection carry their dates
DateOrders == {"ascending", "descending", "repeating"}

\* the collection a listing runs on, in insertion order: document i
ListedCollection(size, dates) ==
    [i \in 1..size |->
        [id |-> i,
         appointmentDate |-> CASE dates = "ascending" -> i
                               [] dates = "descending" -> MaxRecords + 2 - i
                               [] OTHER -> i % 3,
         status |-> IF i % 4 = 0 THEN "cancelled" ELSE "pending"]]

\* the filter object built from the query: a falsy parameter adds no condition
FilterMatches(doc, query) ==
    Falsy(query.status) \/ doc.status = query.status

\* .sort({ appointmentDate: "asc" }): documents with equal dates come in the
\* order the server happens to produce, here insertion order or its reverse
SortsBefore(a, b, ties) ==
    \/ a.appointmentDate < b.appointmentDate
    \/ /\ a.appointmentDate = b.appointmentDate
       /\ IF ties = "natural" THEN a.id < b.id ELSE a.id > b.id

RECURSIVE SortByDate(_, _)
SortByDate(docs, ties) ==
    IF Len(docs) <= 1 THEN docs
    ELSE LET rest == SortByDate(Tail(docs), ties)
             d == Head(docs)
             k == Cardinality({j \in 1..Len(rest) : SortsBefore(rest[j], d, ties)})
         IN  SubSeq(rest, 1, k) \o <<d>> \o SubSeq(rest, k + 1, Len(rest))

\* the skip, were it taken from the page number itself
SkipFromPage(page, limit) == page * limit

\* const skip = (page - 1) * limit
Skip(page, limit) == (page - 1) * limit

\* Math.ceil(total / limit) for limit >= 1
Ceil(total, limit) ==
    IF total % limit = 0 THEN total \div limit ELSE (total \div limit) + 1

\* the handler: find(filter).sort().skip().limit(), countDocuments(filter) and
\* the 200 response
GetAppointmentsResult(collection, query, ties) ==
    LET page == OrDefault(ParseInt(query.page), 1)
        limit == OrDefault(ParseInt(query.limit), 10)
        skip == Skip(page, limit)
        found == SortByDate(SelectSeq(collection,
                                      LAMBDA d : FilterMatches(d, query)), ties)
        total == Len(SelectSeq(collection, LAMBDA d : FilterMatches(d, query)))
        last == IF skip + limit < Len(found) THEN skip + limit ELSE Len(found)
    IN  [code |-> 200,
         appointments |-> SubSeq(found, skip + 1, last),
         currentPage |-> page,
         totalPages |-> Ceil(total, limit),
         totalAppointments |-> total]

\* a listing request is answered
GetAppointments ==
    /\ listing.result.code = 0
    /\ \E ties \in {"natural", "reverse"} :
         listing' = [listing EXCEPT !.result =
                        GetAppointmentsResult(
                            ListedCollection(listing.size, listing.dates),
                            listing.query, ties)]
    /\ UNCHANGED <<store, nextId, orders, pc, req, appointment, resp>>

(* --------------------------- specifications ---------------------------- *)

\* a request is served by the first handler that is free
FirstFree(p) == pc[p] = "idle" /\ \A q \in Procs : q < p => pc[q] # "idle"

\* requests are handled concurrently: handlers interleave at their awaits
Next ==
    \E p \in Procs :
        \/ FirstFree(p) /\ GetAppointment(p) /\ UNCHANGED listing
        \/ FirstFree(p) /\ BookAppointment(p) /\ UNCHANGED listing
        \/ FirstFree(p) /\ VerifyPayment(p) /\ UNCHANGED listing
        \/ FirstFree(p) /\ CancelAppointment(p) /\ UNCHANGED listing
        \/ FirstFree(p) /\ DeleteAppointment(p) /\ UNCHANGED listing
        \/ BookSave(p) /\ UNCHANGED listing
        \/ VerifySave(p) /\ UNCHANGED listing
        \/ CancelSave(p) /\ UNCHANGED listing
        \/ DeleteRemove(p) /\ UNCHANGED listing

Spec == Init /\ [][Next]_vars

AllIdle == \A p \in Procs : pc[p] = "idle"

\* requests arrive one after another: each handler runs to completion before
\* the next request is sent
SeqNext ==
    \E p \in Procs :
        \/ AllIdle /\ FirstFree(p) /\ GetAppointment(p) /\ UNCHANGED listing
        \/ AllIdle /\ FirstFree(p) /\ BookAppointment(p) /\ UNCHANGED listing
        \/ AllIdle /\ FirstFree(p) /\ VerifyPayment(p) /\ UNCHANGED listing
        \/ AllIdle /\ FirstFree(p) /\ CancelAppointment(p) /\ UNCHANGED listing
        \/ AllIdle /\ FirstFree(p) /\ DeleteAppointment(p) /\ UNCHANGED listing
        \/ BookSave(p) /\ UNCHANGED listing
        \/ VerifySave(p) /\ UNCHANGED listing
        \/ CancelSave(p) /\ UNCHANGED listing
        \/ DeleteRemove(p) /\ UNCHANGED listing

SeqSpec == Init /\ [][SeqNext]_vars

\* listing requests: every collection and query of the model, answered once
ListInit ==
    /\ store = << >>
    /\ nextId = 1
    /\ orders = << >>
    /\ pc = [p \in Procs |-> "idle"]
    /\ req = [p \in Procs |-> NoReq]
    /\ appointment = [p \in Procs |-> NoAppointment]
    /\ resp = NoResp
    /\ \E size \in 0..MaxRecords, dates \in DateOrders, page \in QueryPages,
          limit \in QueryLimits, status \in QueryStatuses :
         listing = [NoListing EXCEPT
                       !.size = size, !.dates = dates,
                       !.query = [page |-> page, limit |-> limit,
                                  status |-> status]]

ListNext == GetAppointments

ListSpec == ListInit /\ [][ListNext]_vars

(* ------------------------------ properties ---------------------------- *)

\* the slot of a document
Slot(doc) == <<doc.appointmentDate, doc.testType>>

SlotBookedResponse ==
    Response("book", 400, "This time slot is already booked", 0, "none")

InvalidSignatureResponse ==
    Response("verify", 400, "Invalid payment signature", 0, "none")

\* C1: in every state reached by requests handled one after another, no two
\* stored appointments that are not cancelled have the same
\* (appointmentDate, testType)
C1_SlotExclusive ==
    \A i, j \in DOMAIN store :
        (/\ i # j
         /\ store[i].status # "cancelled"
         /\ store[j].status # "cancelled") => Slot(store[i]) # Slot(store[j])

\* C2: of two bookings of one slot that run concurrently at most one stores
\* an appointment: no two stored appointments with the same slot are both as
\* their booking left them (pending)
C2_OneBookingPerSlot ==
    \A i, j \in DOMAIN store :
        (/\ i # j
         /\ store[i].status = "pending"
         /\ store[j].status = "pending") => Slot(store[i]) # Slot(store[j])

\* C3: a booking request that passes the field checks while a pending or
\* confirmed appointment with its (appointmentDate, testType) is stored gets
\* the slot-already-booked response, and the step that sends this response
\* stores nothing
C3_ConflictRejected ==
    /\ [](\A body \in Bodies, now \in Times :
            (/\ BookValidation(body, now) = ""
             /\ \E i \in DOMAIN store :
                  /\ store[i].status \in {"pending", "confirmed"}
                  /\ store[i].appointmentDate = NewDate(body.appointmentDate)
                  /\ store[i].testType = body.testType)
            => BookLookup(store, body, now) = SlotBookedResponse)
    /\ [][resp' = SlotBookedResponse => UNCHANGED <<store, nextId, orders>>]_vars

\* C3: a booking was rejected for a slot that a stored appointment holds
C3_Witness ==
    /\ resp = SlotBookedResponse
    /\ \E i \in DOMAIN store : store[i].status \in {"pending", "confirmed"}

\* C4: a stored appointment whose status is cancelled keeps that status in
\* every step that does not delete it
C4_CancelledIsTerminal ==
    [][\A i \in DOMAIN store \cap DOMAIN store' :
          store[i].status = "cancelled" => store'[i].status = "cancelled"]_vars

\* C5: every stored appointment that is confirmed has paymentStatus completed
\* and a paymentId, also when verifyPayment and cancelAppointment interleave
C5_ConfirmedIsPaid ==
    \A i \in DOMAIN store :
        store[i].status = "confirmed"
            => /\ store[i].paymentStatus = "completed"
               /\ store[i].paymentId \in PaymentIds

\* C5: an appointment is confirmed while a cancellation that loaded it before
\* the confirmation is still to save
C5_Witness ==
    \E p \in Procs :
        /\ pc[p] = "cancel_save"
        /\ appointment[p].doc.status = "pending"
        /\ appointment[p].id \in DOMAIN store
        /\ store[appointment[p].id].status = "confirmed"

\* C6: verifyPayment with a signature that is not the digest of its orderId
\* and paymentId sends the invalid-signature response, whatever the store
\* holds, and the step that sends this response changes no stored appointment
C6_InvalidSignatureRejected ==
    /\ [](\A orderId \in OrderIds, paymentId \in PaymentIds,
             signature \in Signatures :
            signature # GeneratedSignature(orderId, paymentId)
            => VerifyLookup(store, orderId, paymentId, signature)
                   = InvalidSignatureResponse)
    /\ [][resp' = InvalidSignatureResponse => store' = store]_vars

\* C6: a verification was rejected for its signature while appointments of
\* every status the code sets are stored
C6_Witness ==
    /\ resp = InvalidSignatureResponse
    /\ \E i, j \in DOMAIN store :
         store[i].status = "confirmed" /\ store[j].status = "cancelled"

\* the save of a verification or cancellation went through: the handler got
\* to its sendEmail call
Notified(p) == pc[p] \in {"verify_save", "cancel_save"} /\ pc'[p] = "idle"
                 /\ resp'.mail # "none"

\* the document a handler loaded is stored as it was loaded
LoadedIsCurrent(p) ==
    /\ appointment[p].id \in DOMAIN store
    /\ store[appointment[p].id] = appointment[p].doc

\* C7: a verification that finds its appointment as loaded leaves it confirmed,
\* completed and with the request's paymentId; when the appointment already is
\* so (the same verification went before), the store, the ids and the orders
\* are unchanged and the only effect is the sendEmail call
C7_VerifyIdempotent ==
    [][\A p \in Procs :
         (pc[p] = "verify_save" /\ Notified(p) /\ LoadedIsCurrent(p))
         => /\ store'[appointment[p].id] =
                 [appointment[p].doc EXCEPT !.status = "confirmed",
                                            !.paymentStatus = "completed",
                                            !.paymentId = req[p].paymentId]
            /\ (/\ appointment[p].doc.status = "confirmed"
                /\ appointment[p].doc.paymentStatus = "completed"
                /\ appointment[p].doc.paymentId = req[p].paymentId)
               => /\ UNCHANGED <<store, nextId, orders>>
                  /\ resp'.mail \in {"sent", "failed"}]_vars

\* C7: a verification is about to save an appointment that the same
\* verification confirmed before
C7_Witness ==
    \E p \in Procs :
        /\ pc[p] = "verify_save"
        /\ LoadedIsCurrent(p)
        /\ appointment[p].doc.status = "confirmed"
        /\ appointment[p].doc.paymentStatus = "completed"
        /\ appointment[p].doc.paymentId = req[p].paymentId

\* C8: a verification or cancellation whose sendEmail call failed responds
\* with success
C8_NotifierFailureNotSurfaced == resp.mail = "failed" => resp.code = 200

\* the document a suspended verification or cancellation is about to save
Assigned(p) ==
    IF pc[p] = "verify_save"
    THEN ConfirmedAppointment(appointment[p].doc, req[p].paymentId)
    ELSE CancelledAppointment(appointment[p].doc)

\* C9: when sendEmail fails in verifyPayment or cancelAppointment the store is
\* as save() left it: the appointment that was found as loaded has the values
\* the handler assigned
C9_TransitionSurvivesNotifier ==
    [][\A p \in Procs :
         (Notified(p) /\ resp'.mail = "failed")
         => /\ store' = SaveLoaded(store, appointment[p], Assigned(p))
            /\ LoadedIsCurrent(p) => store'[appointment[p].id] = Assigned(p)]_vars

\* C9: sendEmail failed and the appointment is stored as the handler saved it
C9_Witness ==
    /\ resp.mail = "failed"
    /\ resp.id \in DOMAIN store
    /\ \/ resp.op = "verify" /\ store[resp.id].status = "confirmed"
       \/ resp.op = "cancel" /\ store[resp.id].status = "cancelled"

\* C10: every stored appointment has the price-table amount of its testType
\* (xray: 1000) and an order of the gateway for that amount times 100, and no
\* step changes the amount of a stored appointment
C10_AmountFromPriceTable ==
    /\ [](\A i \in DOMAIN store :
            /\ store[i].testType \in DOMAIN testPrices
            /\ store[i].amount = testPrices[store[i].testType]
            /\ store[i].testType = "xray" => store[i].amount = 1000
            /\ store[i].orderId \in DOMAIN orders
            /\ orders[store[i].orderId] = store[i].amount * 100)
    /\ [][\A i \in DOMAIN store \cap DOMAIN store' :
            store'[i].amount = store[i].amount]_vars

\* C10: appointments of both test types are stored with their prices, one of
\* them after its status changed
C10_Witness ==
    \E i, j \in DOMAIN store :
        /\ store[i].testType = "xray" /\ store[i].amount = 1000
        /\ store[i].status = "confirmed"
        /\ orders[store[i].orderId] = 100000
        /\ store[j].testType = "mri" /\ store[j].amount = 8000

\* the messages of the handler's own checks and of the schema's validators
ValidationMessages ==
    {requiredFields[i] \o " is required" : i \in 1..Len(requiredFields)}
        \cup {"Please enter a valid email",
              "Please enter a valid 10-digit phone number",
              "Invalid test type",
              "Appointment date cannot be in the past",
              "Appointment validation failed"}

\* C11: a booking request rejected by a validation check or by the conflict
\* check has no side effects: the step that sends the rejection changes no
\* appointment and no order, and the request has created no gateway order
C11_RejectionHasNoSideEffects ==
    [][\A p \in Procs :
         (/\ pc[p] \in {"idle", "book_save"} /\ pc'[p] = "idle"
          /\ resp'.op = "book" /\ resp'.code = 400
          /\ resp'.message \in ValidationMessages
                                 \cup {SlotBookedResponse.message})
         => /\ UNCHANGED <<store, nextId, orders>>
            /\ req[p].orderId \notin DOMAIN orders]_vars

OrderFailedResponse == Response("book", 400, "order creation failed", 0, "none")

\* C12: every stored appointment has the id of a gateway order, no two have
\* the same one; a booking that goes on to save holds the order the gateway
\* created in that step, the appointment it inserts carries that order's id,
\* and a booking whose order creation failed stores nothing
C12_StoredHasOwnOrder ==
    /\ [](\A i \in DOMAIN store :
            /\ store[i].orderId \in DOMAIN orders
            /\ \A j \in DOMAIN store :
                 i # j => store[i].orderId # store[j].orderId)
    /\ [][
          /\ \A p \in Procs :
               (pc[p] = "idle" /\ pc'[p] = "book_save")
               => req'[p].orderId \in DOMAIN orders' \ DOMAIN orders
          /\ \A p \in Procs :
               (pc[p] = "book_save" /\ pc'[p] = "idle")
               => \A i \in DOMAIN store' \ DOMAIN store :
                    store'[i].orderId = req[p].orderId
          /\ DOMAIN store' \ DOMAIN store # {}
               => \E p \in Procs : pc[p] = "book_save" /\ pc'[p] = "idle"
          /\ resp' = OrderFailedResponse
               => UNCHANGED <<store, nextId, orders>>
       ]_vars

\* C12: an order creation failed while an appointment with its own order is
\* stored
C12_Witness ==
    /\ resp = OrderFailedResponse
    /\ \E i \in DOMAIN store : store[i].orderId \in DOMAIN orders

\* C13: a booking that fails at the gateway's order creation or at the store's
\* insert responds with a server error (5xx)
C13_DependencyFailureIsServerError ==
    (resp.op = "book" /\ resp.message \in {"order creation failed", "store failure"})
        => resp.code >= 500

\* C14: every stored appointment has an orderId from its creation on, and no
\* step changes the orderId of an appointment that stays stored
C14_OrderIdNeverChanges ==
    /\ [](\A i \in DOMAIN store : store[i].orderId \in OrderIds)
    /\ [][\A i \in DOMAIN store \cap DOMAIN store' :
            store'[i].orderId = store[i].orderId]_vars

\* C14: an appointment that was both confirmed and cancelled after its
\* creation is stored with its order id
C14_Witness ==
    \E i \in DOMAIN store :
        /\ store[i].status = "cancelled"
        /\ store[i].paymentStatus = "completed"
        /\ store[i].orderId \in DOMAIN orders

\* the messages of a response to a failure of the store
StoreFailureMessages == {"store failure", "No document found"}

\* C15: a cancellation of an id with no stored appointment responds 404 and
\* changes nothing; a cancellation that found its appointment and whose save
\* the store did not fail responds with success and leaves the appointment
\* cancelled, which for an already cancelled appointment leaves the store as
\* it was
C15_CancelOutcomes ==
    [][\A p \in Procs :
         /\ (pc' = pc /\ resp'.op = "cancel")
            => /\ resp'.code = 404
               /\ UNCHANGED <<store, nextId, orders>>
         /\ (/\ pc[p] = "cancel_save" /\ pc'[p] = "idle"
             /\ resp'.message \notin StoreFailureMessages)
            => /\ resp'.code = 200
               /\ LoadedIsCurrent(p)
                  => /\ store' = [store EXCEPT ![appointment[p].id].status =
                                                    "cancelled"]
                     /\ appointment[p].doc.status = "cancelled"
                        => store' = store]_vars

\* the order o is neither that of a stored appointment nor held by a booking
\* that is still to save
OrderUnused(o) ==
    /\ FindByOrderId(store, o) = {}
    /\ \A p \in Procs : ~(pc[p] = "book_save" /\ req[p].orderId = o)

ListedMatches ==
    LET collection == ListedCollection(listing.size, listing.dates)
    IN  {collection[i] : i \in {j \in 1..listing.size :
                                  FilterMatches(collection[j], listing.query)}}

\* the query parameter v asks for the number n, or is omitted and n is the
\* default
AsksFor(v, n, default) == v = Numeral[n] \/ (v = Undefined /\ n = default)

\* C17: for a page p >= 1 and a page size l >= 1 (1 and 10 when omitted) and
\* N matching documents, the response holds the documents of the positions
\* (p-1)*l .. min(p*l, N)-1 of the matches in ascending order of
\* appointmentDate, each once, with totalAppointments = N and totalPages the
\* least k with k*l >= N; p = 2, l = 10, N = 25 gives 10 documents and 3 pages
C17_Pagination ==
    listing.result.code = 200 =>
      \A p \in 1..MaxPage, l \in 1..Len(Numeral) :
        (/\ AsksFor(listing.query.page, p, 1)
         /\ AsksFor(listing.query.limit, l, 10))
        => LET r == listing.result
               N == Cardinality(ListedMatches)
               first == (p - 1) * l
               end == IF p * l < N THEN p * l ELSE N
           IN  /\ Len(r.appointments) = IF end > first THEN end - first ELSE 0
               /\ \A k \in 1..Len(r.appointments) :
                    LET d == r.appointments[k]
                        pos == first + k - 1
                    IN  /\ d \in ListedMatches
                        /\ Cardinality({m \in ListedMatches :
                              m.appointmentDate < d.appointmentDate}) <= pos
                        /\ pos < Cardinality({m \in ListedMatches :
                              m.appointmentDate <= d.appointmentDate})
                        /\ \A j \in 1..(k - 1) : r.appointments[j] # d
               /\ r.totalAppointments = N
               /\ r.totalPages * l >= N /\ (r.totalPages - 1) * l < N
               /\ r.currentPage = p
               /\ (p = 2 /\ l = 10 /\ N = 25)
                  => Len(r.appointments) = 10 /\ r.totalPages = 3

\* C17: page 2 of size 10 of 25 matching documents was listed
C17_Witness ==
    /\ listing.result.code = 200
    /\ listing.query.page = "2" /\ listing.query.limit = "10"
    /\ listing.result.totalAppointments = 25
    /\ Len(listing.result.appointments) = 10
    /\ listing.result.totalPages = 3

DateInPastResponse ==
    Response("book", 400, "Appointment date cannot be in the past", 0, "none")

\* C18: a booking request that passes the checks before the date check gets
\* the date-in-the-past response when its appointmentDate does not parse or is
\* not strictly later than the current time, and goes on to create an order
\* and store an appointment only when the date is strictly later
C18_DateStrictlyFuture ==
    \A body \in Bodies, now \in Times :
        BookValidation(body, now) \in {"", DateInPastResponse.message}
        => LET date == NewDate(body.appointmentDate)
           IN  /\ ~(date # InvalidDate /\ date > now)
                  => BookLookup(store, body, now) = DateInPastResponse
               /\ BookLookup(store, body, now) = NoResp
                  => (date # InvalidDate /\ date > now)

\* the messages of the checks of a booking, in the order the specification
\* gives them
CheckMessages ==
    <<"name is required", "email is required", "phone is required",
      "testType is required", "appointmentDate is required",
      "Please enter a valid email",
      "Please enter a valid 10-digit phone number",
      "Invalid test type",
      "Appointment date cannot be in the past",
      "This time slot is already booked">>

\* check k of that order, taken alone, fails for the body at the time now
\* with the appointments s stored
CheckFails(k, s, body, now) ==
    CASE k = 1 -> Falsy(body.name)
      [] k = 2 -> Falsy(body.email)
      [] k = 3 -> Falsy(body.phone)
      [] k = 4 -> Falsy(body.testType)
      [] k = 5 -> Falsy(body.appointmentDate)
      [] k = 6 -> ~EmailRegexTest(body.email)
      [] k = 7 -> ~PhoneRegexTest(body.phone)
      [] k = 8 -> PriceLookup(body.testType) = 0
      [] k = 9 -> DateLess(NewDate(body.appointmentDate), now)
      [] OTHER -> ConflictingAppointments(s, NewDate(body.appointmentDate),
                                          body.testType) # {}

\* C19: a booking request for which some check fails gets the 400 response
\* with the message of the first check, in the order required fields, email
\* format, phone format, test type, date, slot conflict, that fails; so the
\* slot-conflict response is sent only when no field check fails
C19_FirstFailingCheck ==
    \A body \in Bodies, now \in Times :
        LET failing == {k \in 1..Len(CheckMessages) :
                           CheckFails(k, store, body, now)}
            r == BookLookup(store, body, now)
        IN  /\ failing # {}
               => /\ r.code = 400
                  /\ r.message = CheckMessages[CHOOSE k \in failing :
                                                 \A j \in failing : k <= j]
            /\ r = SlotBookedResponse => failing = {Len(CheckMessages)}

\* C19: the response just sent is that of a request whose date is past and
\* whose slot is taken: of the two failing checks the date check answered
C19_Witness ==
    \E body \in Bodies, now \in Times :
        /\ resp = BookLookup(store, body, now)
        /\ resp = DateInPastResponse
        /\ CheckFails(9, store, body, now)
        /\ CheckFails(10, store, body, now)

\* C20: a verification with an invalid signature gets the invalid-signature
\* response also when no appointment has its orderId; the 404 response is
\* sent exactly when the signature is valid and no stored appointment has the
\* orderId; the step that sends either response changes no record and calls
\* no sendEmail
C20_SignatureBeforeLookup ==
    /\ [](\A orderId \in OrderIds, paymentId \in PaymentIds,
             signature \in Signatures :
            LET r == VerifyLookup(store, orderId, paymentId, signature)
                valid == signature = GeneratedSignature(orderId, paymentId)
                absent == FindByOrderId(store, orderId) = {}
            IN  /\ (~valid /\ absent) => r = InvalidSignatureResponse
                /\ r = NotFoundResponse("verify") <=> (valid /\ absent))
    /\ [][resp' \in {InvalidSignatureResponse, NotFoundResponse("verify")}
            => /\ UNCHANGED <<store, nextId, orders>>
               /\ resp'.mail = "none"]_vars

\* C20: the response just sent is that of a verification with an invalid
\* signature for an order id that no stored appointment has, while another
\* appointment is stored
C20_Witness ==
    /\ store # << >>
    /\ \E orderId \in OrderIds, paymentId \in PaymentIds,
          signature \in Signatures :
         /\ signature # GeneratedSignature(orderId, paymentId)
         /\ FindByOrderId(store, orderId) = {}
         /\ resp = VerifyLookup(store, orderId, paymentId, signature)
         /\ resp = InvalidSignatureResponse

\* C21: a verification or cancellation whose save the store did not fail
\* calls sendEmail, once, in the step that has saved its assignments; no other
\* step calls it: not one that responds invalid signature, not found or with a
\* store failure, and no step of a booking or a deletion
C21_NotifiedOncePerTransition ==
    [][
          /\ \A p \in Procs :
               (/\ pc[p] \in {"verify_save", "cancel_save"} /\ pc'[p] = "idle"
                /\ resp'.message \notin StoreFailureMessages)
               => /\ resp'.mail \in {"sent", "failed"}
                  /\ store' = SaveLoaded(store, appointment[p], Assigned(p))
          /\ resp'.mail # "none"
               => \E p \in Procs :
                    /\ Notified(p)
                    /\ resp'.op = (IF pc[p] = "verify_save" THEN "verify"
                                    ELSE "cancel")
                    /\ store' = SaveLoaded(store, appointment[p], Assigned(p))
          /\ resp'.message \in {"Invalid payment signature",
                                  "Appointment not found"}
                                     \cup StoreFailureMessages
               => resp'.mail = "none"
          /\ resp'.op \in {"book", "delete", "get"} => resp'.mail = "none"
       ]_vars

\* C21: a cancellation saved its status and its mail was sent
C21_Witness ==
    /\ resp.op = "cancel" /\ resp.mail = "sent"
    /\ resp.id \in DOMAIN store
    /\ store[resp.id].status = "cancelled"

\* the paths that verifyPayment assigns
VerifiedPaths == {"status", "paymentStatus", "paymentId"}

\* C22: the step that ends a verification which found an appointment changes
\* at most that appointment, which has the request's orderId, and on it at most
\* status, paymentStatus and paymentId; no appointment is added or removed
C22_VerifyChangesThreePaths ==
    [][\A p \in Procs :
         (pc[p] = "verify_save" /\ pc'[p] = "idle")
         => /\ DOMAIN store' = DOMAIN store
            /\ \A j \in DOMAIN store :
                 IF j = appointment[p].id
                 THEN /\ store[j].orderId = req[p].orderId
                      /\ \A f \in Paths \ VerifiedPaths :
                           store'[j][f] = store[j][f]
                 ELSE store'[j] = store[j]]_vars

\* C22: a verification succeeded on one appointment while another one, still
\* pending, is stored
C22_Witness ==
    /\ resp.op = "verify" /\ resp.code = 200
    /\ resp.id \in DOMAIN store
    /\ store[resp.id].status = "confirmed"
    /\ \E j \in DOMAIN store : j # resp.id /\ store[j].status = "pending"

\* C23: the step that ends a cancellation changes at most the status of the
\* appointment it loaded and nothing else in the store; and in no step of any
\* handler does a stored appointment's paymentStatus leave completed or its
\* paymentId become unset
C23_CancelChangesStatusOnly ==
    [][
          /\ \A p \in Procs :
               (pc[p] = "cancel_save" /\ pc'[p] = "idle")
               => /\ DOMAIN store' = DOMAIN store
                  /\ \A j \in DOMAIN store :
                       IF j = appointment[p].id
                       THEN \A f \in Paths \ {"status"} :
                              store'[j][f] = store[j][f]
                       ELSE store'[j] = store[j]
          /\ \A i \in DOMAIN store \cap DOMAIN store' :
               /\ store[i].paymentStatus = "completed"
                    => store'[i].paymentStatus = "completed"
               /\ store[i].paymentId # Undefined
                    => store'[i].paymentId # Undefined
       ]_vars

\* C23: a cancellation has just ended on an appointment that was confirmed:
\* it is cancelled, its paymentStatus is completed and its paymentId is set
C23_Witness ==
    /\ resp.op = "cancel" /\ resp.code = 200
    /\ resp.id \in DOMAIN store
    /\ store[resp.id].status = "cancelled"
    /\ store[resp.id].paymentStatus = "completed"
    /\ store[resp.id].paymentId \in PaymentIds

\* C24: a booking request that passes the field checks for a slot that no
\* pending or confirmed appointment holds (the slot is free, or its holders
\* are cancelled or deleted) goes past the conflict check; its save, when the
\* document is valid and the store does not fail, responds 201 and adds one
\* pending appointment under a new id with the order the booking created,
\* which no other stored appointment has
C24_SlotReleased ==
    /\ [](\A body \in Bodies, now \in Times :
            (/\ BookValidation(body, now) = ""
             /\ NewDate(body.appointmentDate) # InvalidDate
             /\ \A i \in DOMAIN store :
                  Slot(store[i]) = <<NewDate(body.appointmentDate), body.testType>>
                  => store[i].status = "cancelled")
            => BookLookup(store, body, now) = NoResp)
    /\ [][\A p \in Procs :
            (/\ pc[p] = "book_save" /\ pc'[p] = "idle"
             /\ SchemaValid(NewAppointment(req[p]))
             /\ resp'.message # "store failure")
            => /\ resp'.code = 201
               /\ resp'.id \notin DOMAIN store
               /\ DOMAIN store' = DOMAIN store \cup {resp'.id}
               /\ \A i \in DOMAIN store :
                    /\ store'[i] = store[i]
                    /\ store[i].orderId # store'[resp'.id].orderId
               /\ store'[resp'.id].status = "pending"
               /\ store'[resp'.id].paymentStatus = "pending"
               /\ store'[resp'.id].orderId = req[p].orderId
               /\ Slot(store'[resp'.id]) =
                      <<req[p].appointmentDate, req[p].testType>>]_vars

\* C24: a booking has just stored a pending appointment for a slot whose
\* earlier appointment is cancelled, each with its own order
C24_Witness ==
    /\ resp.op = "book" /\ resp.code = 201
    /\ resp.id \in DOMAIN store
    /\ store[resp.id].status = "pending"
    /\ \E i \in DOMAIN store :
         /\ i # resp.id
         /\ Slot(store[i]) = Slot(store[resp.id])
         /\ store[i].status = "cancelled"
         /\ store[i].orderId # store[resp.id].orderId

====
